---- MODULE Spec2Model ----
(***************************************************************************)
(* Model of src/src/extract_logs.py: a persisted date -> byte-offset index *)
(* over an append-only log file (build_index, load_index, update_index),   *)
(* the range resolver (get_date_range) and the chunked parallel scan       *)
(* (process_chunk, extract_logs).                                          *)
(*                                                                         *)
(* The log file is a sequence of bytes, the two index artifacts are        *)
(* sequences of characters, one byte or character per element, written as  *)
(* a one-character string.  Offsets are 0-based as in Python: the byte at  *)
(* offset o of file f is f[o + 1].                                         *)
(***************************************************************************)
EXTENDS Integers, Sequences, FiniteSets, TLC

\* ------------------------------------------------------------------ bounds

\* Lines the environment appends to the log file in one behaviour.
MaxAppends == 2

\* Calls of extract_logs in one behaviour.
MaxExtracts == 2

\* ------------------------------------------------------- program constants

\* len(line_str) < 10, line_str[:10]: the width of a date key.
DateLen == 10

\* num_workers = 4
num_workers == 4

\* ------------------------------------------------------- bytes and strings

NL == "\n"
SP == " "
\* A byte that is not valid UTF-8 on its own (0xFF).
BAD == "xFF"

Digits == <<"0", "1", "2", "3", "4", "5", "6", "7", "8", "9">>

\* The code point of a character: Python compares strings by code point.
Code(c) ==
  CASE c = NL -> 10
    [] c = SP -> 32
    [] c = "-" -> 45
    [] c \in {Digits[i] : i \in 1..10} -> 47 + (CHOOSE i \in 1..10 : Digits[i] = c)
    [] OTHER -> 96 + (CHOOSE i \in 1..26 :
                        <<"a", "b", "c", "d", "e", "f", "g", "h", "i", "j", "k", "l", "m",
                          "n", "o", "p", "q", "r", "s", "t", "u", "v", "w", "x", "y", "z">>[i] = c)

\* a < b for two strings (Python's str.__lt__: lexicographic, a proper prefix is less).
RECURSIVE StrLess(_, _)
StrLess(a, b) ==
  IF b = <<>> THEN FALSE
  ELSE IF a = <<>> THEN TRUE
  ELSE IF Head(a) # Head(b) THEN Code(Head(a)) < Code(Head(b))
  ELSE StrLess(Tail(a), Tail(b))

\* sorted(keys, reverse=True): the strings of the set S in descending order.
RECURSIVE sorted_descending(_)
sorted_descending(S) ==
  IF S = {} THEN <<>>
  ELSE LET m == CHOOSE x \in S : \A y \in S \ {x} : StrLess(y, x)
       IN  <<m>> \o sorted_descending(S \ {m})

\* sorted(keys): the strings of the set S in ascending order.
RECURSIVE sorted(_)
sorted(S) ==
  IF S = {} THEN <<>>
  ELSE LET m == CHOOSE x \in S : \A y \in S \ {x} : StrLess(x, y)
       IN  <<m>> \o sorted(S \ {m})

\* line.decode("utf-8", errors="ignore"): undecodable bytes are dropped.
decode(line) == SelectSeq(line, LAMBDA b : b # BAD)

\* s[:n]
Prefix(s, n) == SubSeq(s, 1, IF Len(s) < n THEN Len(s) ELSE n)

\* line_str.startswith(target_date)
startswith(s, t) == Len(s) >= Len(t) /\ SubSeq(s, 1, Len(t)) = t

\* str(n) for n >= 0.
RECURSIVE str(_)
str(n) == IF n < 10 THEN <<Digits[n + 1]>> ELSE str(n \div 10) \o <<Digits[(n % 10) + 1]>>

IsDigit(c) == \E i \in 1..10 : Digits[i] = c

\* int(s) fails (ValueError) unless s is a decimal numeral; the characters of the
\* model have no sign, underscore or non-ASCII digit.
IsNumeral(s) == s # <<>> /\ \A i \in 1..Len(s) : IsDigit(s[i])

RECURSIVE int(_)
int(s) ==
  IF Len(s) = 0 THEN 0
  ELSE 10 * int(SubSeq(s, 1, Len(s) - 1)) + ((CHOOSE i \in 1..10 : Digits[i] = s[Len(s)]) - 1)

IsSpace(c) == c \in {SP, NL}

\* s.strip().split(): the maximal runs of non-whitespace characters of s.
RECURSIVE split(_)
split(s) ==
  IF s = <<>> THEN <<>>
  ELSE IF IsSpace(Head(s)) THEN split(Tail(s))
  ELSE LET stop == IF \E j \in 1..Len(s) : IsSpace(s[j])
                   THEN (CHOOSE j \in 1..Len(s) :
                           IsSpace(s[j]) /\ \A k \in 1..(j - 1) : ~IsSpace(s[k]))
                   ELSE Len(s) + 1
       IN  <<SubSeq(s, 1, stop - 1)>> \o split(SubSeq(s, stop, Len(s)))

\* ------------------------------------------------------------ line scanner

\* os.path.getsize(log_file)
getsize(f) == Len(f)

\* f.tell() after f.readline() at offset pos: just past the next newline, or the end
\* of the file; a position at or past the end of the file does not move.
AfterLine(f, pos) ==
  IF pos >= Len(f) THEN pos
  ELSE IF \E j \in (pos + 1)..Len(f) : f[j] = NL
       THEN CHOOSE j \in (pos + 1)..Len(f) : f[j] = NL /\ \A k \in (pos + 1)..(j - 1) : f[k] # NL
       ELSE Len(f)

\* f.readline() at offset pos: the bytes up to and including the next newline; empty
\* at the end of the file.
readline(f, pos) == SubSeq(f, pos + 1, AfterLine(f, pos))

\* The text a file opened in text mode yields line by line ("for line in f").
RECURSIVE textlines(_)
textlines(t) ==
  IF t = <<>> THEN <<>>
  ELSE LET n == AfterLine(t, 0) IN <<SubSeq(t, 1, n)>> \o textlines(SubSeq(t, n + 1, Len(t)))

\* --------------------------------------------------------------- files

\* A path that does not exist, and a file with its content.
NoFile == [exists |-> FALSE, data |-> <<>>]
File(d) == [exists |-> TRUE, data |-> d]

\* A dict: a function from its keys.
EmptyDict == [k \in {} |-> 0]
Put(d, k, v) == [x \in DOMAIN d \cup {k} |-> IF x = k THEN v ELSE d[x]]

\* s.strip()
RECURSIVE strip(_)
strip(s) ==
  IF s = <<>> THEN s
  ELSE IF IsSpace(Head(s)) THEN strip(Tail(s))
  ELSE IF IsSpace(s[Len(s)]) THEN strip(SubSeq(s, 1, Len(s) - 1))
  ELSE s

\* ---------------------------------------------------------------- index

\* The scan loop of build_index without its "if date not in index": a later line of
\* a date overwrites the offset of an earlier one.
RECURSIVE build_scan_last_wins(_, _, _)
build_scan_last_wins(f, pos, index) ==
  LET line == readline(f, pos)
      line_str == decode(line)
      date == Prefix(line_str, DateLen)
  IN  IF line = <<>> THEN index
      ELSE IF Len(line_str) < DateLen THEN build_scan_last_wins(f, AfterLine(f, pos), index)
      ELSE build_scan_last_wins(f, AfterLine(f, pos), Put(index, date, pos))

\* The scan loop of build_index from offset pos: the first offset of each date key.
RECURSIVE build_scan(_, _, _)
build_scan(f, pos, index) ==
  LET line == readline(f, pos)
      line_str == decode(line)
      date == Prefix(line_str, DateLen)
  IN  IF line = <<>> THEN index
      ELSE IF Len(line_str) < DateLen THEN build_scan(f, AfterLine(f, pos), index)
      ELSE IF date \notin DOMAIN index
           THEN build_scan(f, AfterLine(f, pos), Put(index, date, pos))
           ELSE build_scan(f, AfterLine(f, pos), index)

\* idx_f.write(f"{date} {index[date]}\n") for each date of the sequence dates.
RECURSIVE write_entries(_, _)
write_entries(dates, index) ==
  IF dates = <<>> THEN <<>>
  ELSE Head(dates) \o <<SP>> \o str(index[Head(dates)]) \o <<NL>>
       \o write_entries(Tail(dates), index)

\* build_index(log_file): the two artifacts it writes and the message it prints.
build_index(f) ==
  LET index == build_scan(f, 0, EmptyDict)
  IN  [index_file      |-> File(write_entries(sorted(DOMAIN index), index)),
       index_info_file |-> File(str(getsize(f))),
       console         |-> "Index built"]

\* The loop of load_index over the lines of the entry list: a line of exactly two
\* fields sets index[date]; int(offset) raises ValueError on a field that is no numeral.
RECURSIVE load_lines(_, _)
load_lines(lines, acc) ==
  IF lines = <<>> \/ acc.raised THEN acc
  ELSE LET parts == split(Head(lines))
       IN  IF Len(parts) # 2 THEN load_lines(Tail(lines), acc)
           ELSE IF ~IsNumeral(parts[2]) THEN [acc EXCEPT !.raised = TRUE]
           ELSE load_lines(Tail(lines),
                           [acc EXCEPT !.index = Put(acc.index, parts[1], int(parts[2]))])

\* load_index(index_file): the dict, or raised when int() fails.
load_index(file) ==
  IF ~file.exists THEN [raised |-> FALSE, index |-> EmptyDict]
  ELSE load_lines(textlines(file.data), [raised |-> FALSE, index |-> EmptyDict])

\* The longest prefix of s made of digits.
RECURSIVE LeadingDigits(_)
LeadingDigits(s) ==
  IF s = <<>> \/ ~IsDigit(Head(s)) THEN <<>> ELSE <<Head(s)>> \o LeadingDigits(Tail(s))

\* A lenient parse of the watermark: the number its text begins with, where int()
\* raises and the code falls back to 0.
read_watermark_leading_digits(file) ==
  IF file.exists THEN int(LeadingDigits(strip(file.data))) ELSE 0

\* The watermark update_index reads: 0 when the artifact is absent or unparsable.
read_watermark(file) ==
  IF file.exists /\ IsNumeral(strip(file.data)) THEN int(strip(file.data)) ELSE 0

\* The scan loop of update_index without "date not in new_entries": a later line of a
\* new date overwrites the offset found for it in this pass.
RECURSIVE update_scan_last_wins(_, _, _, _)
update_scan_last_wins(f, pos, index, new_entries) ==
  LET line == readline(f, pos)
      line_str == decode(line)
      date == Prefix(line_str, DateLen)
  IN  IF line = <<>> THEN new_entries
      ELSE IF Len(line_str) < DateLen
           THEN update_scan_last_wins(f, AfterLine(f, pos), index, new_entries)
      ELSE IF date \notin DOMAIN index
           THEN update_scan_last_wins(f, AfterLine(f, pos), index, Put(new_entries, date, pos))
           ELSE update_scan_last_wins(f, AfterLine(f, pos), index, new_entries)

\* The scan loop of update_index without "date not in index": a date the index holds
\* is found anew in the appended lines.
RECURSIVE update_scan_ignores_index(_, _, _, _)
update_scan_ignores_index(f, pos, index, new_entries) ==
  LET line == readline(f, pos)
      line_str == decode(line)
      date == Prefix(line_str, DateLen)
  IN  IF line = <<>> THEN new_entries
      ELSE IF Len(line_str) < DateLen
           THEN update_scan_ignores_index(f, AfterLine(f, pos), index, new_entries)
      ELSE IF date \notin DOMAIN new_entries
           THEN update_scan_ignores_index(f, AfterLine(f, pos), index,
                                          Put(new_entries, date, pos))
           ELSE update_scan_ignores_index(f, AfterLine(f, pos), index, new_entries)

\* The scan loop of update_index storing, for the byte offset f.tell() gives, the count
\* of decoded characters before the line.
RECURSIVE update_scan_char_offsets(_, _, _, _)
update_scan_char_offsets(f, pos, index, new_entries) ==
  LET line == readline(f, pos)
      line_str == decode(line)
      date == Prefix(line_str, DateLen)
  IN  IF line = <<>> THEN new_entries
      ELSE IF Len(line_str) < DateLen
           THEN update_scan_char_offsets(f, AfterLine(f, pos), index, new_entries)
      ELSE IF date \notin DOMAIN index /\ date \notin DOMAIN new_entries
           THEN update_scan_char_offsets(f, AfterLine(f, pos), index,
                                         Put(new_entries, date, Len(decode(SubSeq(f, 1, pos)))))
           ELSE update_scan_char_offsets(f, AfterLine(f, pos), index, new_entries)

\* The scan loop of update_index from offset pos: the first offset of each date key
\* that is neither in the loaded index nor already found in this pass.
RECURSIVE update_scan(_, _, _, _)
update_scan(f, pos, index, new_entries) ==
  LET line == readline(f, pos)
      line_str == decode(line)
      date == Prefix(line_str, DateLen)
  IN  IF line = <<>> THEN new_entries
      ELSE IF Len(line_str) < DateLen THEN update_scan(f, AfterLine(f, pos), index, new_entries)
      ELSE IF date \notin DOMAIN index /\ date \notin DOMAIN new_entries
           THEN update_scan(f, AfterLine(f, pos), index, Put(new_entries, date, pos))
           ELSE update_scan(f, AfterLine(f, pos), index, new_entries)

\* The early return with "<" for "<=": a file of exactly the watermark's size is scanned.
nothing_new_strict(current_size, last_processed_offset) ==
  current_size < last_processed_offset

\* "if current_size <= last_processed_offset": update_index returns early.
nothing_new(current_size, last_processed_offset) ==
  current_size <= last_processed_offset

\* update_index writing the watermark only when it appends entries.
update_index_stale_watermark(f, idx, info) ==
  LET loaded == load_index(idx)
      last_processed_offset == read_watermark(info)
      current_size == getsize(f)
      new_entries == update_scan(f, last_processed_offset, loaded.index, EmptyDict)
  IN  IF loaded.raised
      THEN [index_file |-> idx, index_info_file |-> info,
            console |-> "ValueError", raised |-> TRUE]
      ELSE IF nothing_new(current_size, last_processed_offset)
      THEN [index_file |-> idx, index_info_file |-> info,
            console |-> "No new logs to update", raised |-> FALSE]
      ELSE IF DOMAIN new_entries # {}
      THEN [index_file |-> File(idx.data
                                \o write_entries(sorted(DOMAIN new_entries), new_entries)),
            index_info_file |-> File(str(current_size)),
            console |-> "Index updated", raised |-> FALSE]
      ELSE [index_file |-> idx,
            index_info_file |-> info,
            console |-> "No new date entries", raised |-> FALSE]

\* update_index(log_file) on the artifacts idx and info: the artifacts after it, the
\* message it prints, and raised when load_index fails (nothing is written then).
update_index(f, idx, info) ==
  LET loaded == load_index(idx)
      last_processed_offset == read_watermark(info)
      current_size == getsize(f)
      new_entries == update_scan(f, last_processed_offset, loaded.index, EmptyDict)
  IN  IF loaded.raised
      THEN [index_file |-> idx, index_info_file |-> info,
            console |-> "ValueError", raised |-> TRUE]
      ELSE IF nothing_new(current_size, last_processed_offset)
      THEN [index_file |-> idx, index_info_file |-> info,
            console |-> "No new logs to update", raised |-> FALSE]
      ELSE IF DOMAIN new_entries # {}
      THEN [index_file |-> File(idx.data
                                \o write_entries(sorted(DOMAIN new_entries), new_entries)),
            index_info_file |-> File(str(current_size)),
            console |-> "Index updated", raised |-> FALSE]
      ELSE [index_file |-> idx,
            index_info_file |-> File(str(current_size)),
            console |-> "No new date entries", raised |-> FALSE]

\* ------------------------------------------------------------ extraction

\* get_date_range with "date >= target_date" for "date > target_date".
get_date_range_inclusive(target_date, index, f) ==
  IF target_date \notin DOMAIN index
  THEN [found |-> FALSE, start_offset |-> 0, end_offset |-> 0]
  ELSE LET later == {date \in DOMAIN index : ~StrLess(date, target_date)}
           next_date == Head(sorted(later))
       IN  [found |-> TRUE,
            start_offset |-> index[target_date],
            end_offset |-> IF later # {} THEN index[next_date] ELSE getsize(f)]

\* get_date_range(target_date, index, log_file): found is FALSE for (None, None).
get_date_range(target_date, index, f) ==
  IF target_date \notin DOMAIN index
  THEN [found |-> FALSE, start_offset |-> 0, end_offset |-> 0]
  ELSE LET later == {date \in DOMAIN index : StrLess(target_date, date)}
           next_date == Head(sorted(later))
       IN  [found |-> TRUE,
            start_offset |-> index[target_date],
            end_offset |-> IF later # {} THEN index[next_date] ELSE getsize(f)]

\* The membership test skipped: every date is taken to be in the index.
not_in_never(target_date, index) == FALSE

\* "target_date not in index", the test extract_logs makes on the loaded index.
not_in(target_date, index) == target_date \notin DOMAIN index

\* abs(x)
abs(x) == IF x < 0 THEN -x ELSE x

\* The tasks with every chunk, the last too, of chunk_size bytes: the remainder of the
\* division is left out of the last chunk.
make_tasks_equal_chunks(start_offset, end_offset, target_date) ==
  LET total_bytes == abs(end_offset - start_offset)
      chunk_size == total_bytes \div num_workers
  IN  [k \in 1..num_workers |->
         LET i == k - 1
         IN  [chunk_start |-> start_offset + i * chunk_size,
              chunk_end   |-> start_offset + (i + 1) * chunk_size,
              target_date |-> target_date]]

\* The tasks extract_logs builds for a range: task i + 1 is chunk i of the code.
make_tasks(start_offset, end_offset, target_date) ==
  LET total_bytes == abs(end_offset - start_offset)
      chunk_size == total_bytes \div num_workers
  IN  [k \in 1..num_workers |->
         LET i == k - 1
         IN  [chunk_start |-> start_offset + i * chunk_size,
              chunk_end   |-> IF i = num_workers - 1 THEN end_offset
                              ELSE start_offset + (i + 1) * chunk_size,
              target_date |-> target_date]]

\* The position process_chunk starts its loop at: after seek(chunk_start), and after
\* the discarded readline when chunk_start is not 0.
chunk_first_pos(f, chunk_start) ==
  IF chunk_start # 0 THEN AfterLine(f, chunk_start) ELSE chunk_start

\* The while loop of process_chunk from position pos: the offsets of the lines it
\* appends to output_lines, in order.
RECURSIVE chunk_loop(_, _, _, _, _)
chunk_loop(f, pos, chunk_end, target_date, out) ==
  LET line == readline(f, pos)
      hit == IF startswith(decode(line), target_date) THEN Append(out, pos) ELSE out
  IN  IF line = <<>> THEN out
      ELSE IF pos >= chunk_end THEN hit
      ELSE chunk_loop(f, AfterLine(f, pos), chunk_end, target_date, hit)

\* process_chunk(args): the offsets of the lines of output_lines and the lines
\* themselves (line_str), in order.
process_chunk(f, task) ==
  LET offsets == chunk_loop(f, chunk_first_pos(f, task.chunk_start), task.chunk_end,
                            task.target_date, <<>>)
  IN  [offsets |-> offsets,
       lines   |-> [n \in 1..Len(offsets) |-> decode(readline(f, offsets[n]))]]

\* s1 \o s2 \o ... for a sequence of sequences.
RECURSIVE Flatten(_)
Flatten(ss) == IF ss = <<>> THEN <<>> ELSE Head(ss) \o Flatten(Tail(ss))

\* A pool that hands the results back last task first.
pool_map_reversed(done) == [k \in 1..num_workers |-> done[num_workers + 1 - k]]

\* results of pool.map(process_chunk, tasks): the tasks' results in task order,
\* whatever order they completed in.
pool_map(done) == [k \in 1..num_workers |-> done[k]]

\* ------------------------------------------------------------ inputs

D1 == <<"2", "0", "2", "4", "-", "0", "1", "-", "0", "1">>
D2 == <<"2", "0", "2", "4", "-", "0", "1", "-", "0", "2">>
D3 == <<"2", "0", "2", "4", "-", "0", "1", "-", "0", "3">>

\* The line "<date> <tag>\n".
LogLine(date, tag) == date \o <<SP, tag, NL>>

\* The lines the environment writes: dated lines, a line shorter than a date key, and
\* a dated line behind an undecodable byte.
Lines ==
  { LogLine(D1, "a"), LogLine(D2, "d"), LogLine(D3, "e"), <<"x", NL>>,
    <<BAD>> \o LogLine(D2, "z") }

\* "2024-01-01 a\n2024-01-01 b\n2024-01-02 c\n"
ScenarioLog == LogLine(D1, "a") \o LogLine(D1, "b") \o LogLine(D2, "c")

\* The log file before the first call.
InitLogs == {<<>>, ScenarioLog}

\* The dates asked for.
Targets == {D1, D2, D3}

\* ------------------------------------------------------------ state

VARIABLES
  log,              \* the bytes of the log file
  index_file,       \* the entry-list artifact (log_index.txt)
  index_info_file,  \* the watermark artifact (index_info.txt)
  output,           \* output[d]: the artifact output_<d>.txt
  console,          \* the last message printed
  pc,               \* "idle", or where the running call of extract_logs is:
                    \* "indexed", "pool"; "returned" right after a call returns
  target_date,      \* extract_logs: its argument
  range,            \* extract_logs: start_offset, end_offset
  tasks,            \* extract_logs: the tasks handed to the pool
  done,             \* the pool: done[k] is task k's result once it has completed
  results,          \* extract_logs: what pool.map returned
  appends,          \* lines appended so far
  extracts          \* calls of extract_logs so far

vars == <<log, index_file, index_info_file, output, console, pc, target_date, range,
          tasks, done, results, appends, extracts>>

index_vars == <<index_file, index_info_file>>
call_vars == <<target_date, range, tasks, done, results>>

NoRange == [found |-> FALSE, start_offset |-> 0, end_offset |-> 0]

Init ==
  /\ log \in InitLogs
  /\ index_file = NoFile
  /\ index_info_file = NoFile
  /\ output = [d \in Targets |-> NoFile]
  /\ console = ""
  /\ pc = "idle"
  /\ target_date = <<>>
  /\ range = NoRange
  /\ tasks = <<>>
  /\ done = <<>>
  /\ results = <<>>
  /\ appends = 0
  /\ extracts = 0

\* No call is running.
AtRest == pc \in {"idle", "returned"}

\* The environment appends one line to the log file.
AppendLine(line) ==
  /\ AtRest
  /\ appends < MaxAppends
  /\ log' = log \o line
  /\ appends' = appends + 1
  /\ pc' = "idle"
  /\ UNCHANGED <<index_vars, output, console, call_vars, extracts>>

\* build_index opening the entry list to append ("a") where the code opens it to
\* overwrite ("w").
BuildIndex_appending ==
  /\ AtRest
  /\ LET r == build_index(log)
     IN  /\ index_file' = File(index_file.data \o r.index_file.data)
         /\ index_info_file' = r.index_info_file
         /\ console' = r.console
  /\ pc' = "returned"
  /\ UNCHANGED <<log, output, call_vars, appends, extracts>>

\* A call of build_index(log_file).
BuildIndex ==
  /\ AtRest
  /\ LET r == build_index(log)
     IN  /\ index_file' = r.index_file
         /\ index_info_file' = r.index_info_file
         /\ console' = r.console
  /\ pc' = "returned"
  /\ UNCHANGED <<log, output, call_vars, appends, extracts>>

\* A call of update_index(log_file).
UpdateIndex ==
  /\ AtRest
  /\ LET r == update_index(log, index_file, index_info_file)
     IN  /\ index_file' = r.index_file
         /\ index_info_file' = r.index_info_file
         /\ console' = r.console
  /\ pc' = "returned"
  /\ UNCHANGED <<log, output, call_vars, appends, extracts>>

\* extract_logs(log_file, target_date), up to the index being built or updated.
ExtractBegin(t) ==
  /\ AtRest
  /\ extracts < MaxExtracts
  /\ extracts' = extracts + 1
  /\ target_date' = t
  /\ range' = NoRange
  /\ tasks' = <<>>
  /\ done' = <<>>
  /\ results' = <<>>
  /\ IF ~index_file.exists
     THEN LET r == build_index(log)
          IN  /\ index_file' = r.index_file
              /\ index_info_file' = r.index_info_file
              /\ console' = r.console
              /\ pc' = "indexed"
     ELSE LET r == update_index(log, index_file, index_info_file)
          IN  /\ index_file' = r.index_file
              /\ index_info_file' = r.index_info_file
              /\ console' = r.console
              /\ pc' = IF r.raised THEN "returned" ELSE "indexed"
  /\ UNCHANGED <<log, output, appends>>

\* extract_logs from load_index to the tasks: the call returns when the date is not
\* in the index or the range is empty.
Resolve ==
  /\ pc = "indexed"
  /\ LET loaded == load_index(index_file)
         r == get_date_range(target_date, loaded.index, log)
         total_bytes == abs(r.end_offset - r.start_offset)
     IN  IF loaded.raised
         THEN /\ console' = "ValueError"
              /\ pc' = "returned"
              /\ UNCHANGED <<range, tasks, done>>
         ELSE IF not_in(target_date, loaded.index)
         THEN /\ console' = "Target date not found in the index"
              /\ pc' = "returned"
              /\ UNCHANGED <<range, tasks, done>>
         ELSE IF ~r.found
         THEN /\ console' = "No logs found for date"
              /\ pc' = "returned"
              /\ UNCHANGED <<range, tasks, done>>
         ELSE IF total_bytes <= 0
         THEN /\ console' = "No data in the specified range"
              /\ pc' = "returned"
              /\ range' = r
              /\ UNCHANGED <<tasks, done>>
         ELSE /\ range' = r
              /\ tasks' = make_tasks(r.start_offset, r.end_offset, target_date)
              /\ done' = [k \in 1..num_workers |-> [finished |-> FALSE, offsets |-> <<>>, lines |-> <<>>]]
              /\ console' = "Offset"
              /\ pc' = "pool"
  /\ UNCHANGED <<log, index_vars, output, target_date, results, appends, extracts>>

\* A worker of the pool runs task k to completion.
ProcessChunk(k) ==
  /\ pc = "pool"
  /\ ~done[k].finished
  /\ LET r == process_chunk(log, tasks[k])
     IN  done' = [done EXCEPT ![k] = [finished |-> TRUE, offsets |-> r.offsets, lines |-> r.lines]]
  /\ UNCHANGED <<log, index_vars, output, console, pc, target_date, range, tasks,
                 results, appends, extracts>>

\* extract_logs appending the entries of a fresh scan to the entry list once the pool
\* has run: an index write after the chunk phase.
Merge_updates_index ==
  /\ pc = "pool"
  /\ \A k \in 1..num_workers : done[k].finished
  /\ results' = pool_map(done)
  /\ output' = [output EXCEPT ![target_date] =
                  File(Flatten(Flatten([k \in 1..num_workers |-> results'[k].lines])))]
  /\ LET r == build_index(log)
     IN  /\ index_file' = File(index_file.data \o r.index_file.data)
         /\ index_info_file' = r.index_info_file
  /\ console' = "Logs saved"
  /\ pc' = "returned"
  /\ UNCHANGED <<log, target_date, range, tasks, done, appends, extracts>>

\* pool.map returns once every task has completed; extract_logs writes the chunks'
\* lines to the output file in the order of results.
Merge ==
  /\ pc = "pool"
  /\ \A k \in 1..num_workers : done[k].finished
  /\ results' = pool_map(done)
  /\ output' = [output EXCEPT ![target_date] =
                  File(Flatten(Flatten([k \in 1..num_workers |-> results'[k].lines])))]
  /\ console' = "Logs saved"
  /\ pc' = "returned"
  /\ UNCHANGED <<log, index_vars, target_date, range, tasks, done, appends, extracts>>

\* The program as it runs: the log grows between calls of extract_logs.
Next ==
  \/ \E line \in Lines : AppendLine(line)
  \/ \E t \in Targets : ExtractBegin(t)
  \/ Resolve
  \/ \E k \in 1..num_workers : ProcessChunk(k)
  \/ Merge

Spec == Init /\ [][Next]_vars

\* The index functions called on their own while the log grows.
NextIndex ==
  \/ \E line \in Lines : AppendLine(line)
  \/ BuildIndex
  \/ UpdateIndex

SpecIndex == Init /\ [][NextIndex]_vars

\* The environment cuts the log file back to the start of one of its lines (a
\* rotation that keeps a head of the file, or empties it).
Truncate(size) ==
  /\ AtRest
  /\ size < Len(log)
  /\ IF size = 0 THEN TRUE ELSE log[size] = NL
  /\ log' = SubSeq(log, 1, size)
  /\ pc' = "idle"
  /\ UNCHANGED <<index_vars, output, console, call_vars, appends, extracts>>

\* The index functions called on their own while the log grows or is cut back.
NextTrunc ==
  \/ \E line \in Lines : AppendLine(line)
  \/ \E size \in 0..Len(log) : Truncate(size)
  \/ BuildIndex
  \/ UpdateIndex

SpecTrunc == Init /\ [][NextTrunc]_vars

\* What the watermark artifact may hold after damage: nothing, or text that is no
\* numeral.
Garbage == {<<>>, <<"1", "3", "x">>}

\* The lines appended while the artifacts may be damaged: a date the scenario file
\* holds and a date it does not.
RecoverLines == {LogLine(D1, "a"), LogLine(D3, "e")}

\* The entry-list artifact is lost between calls.
RemoveIndexFile ==
  /\ AtRest
  /\ index_file.exists
  /\ index_file' = NoFile
  /\ pc' = "idle"
  /\ UNCHANGED <<log, index_info_file, output, console, call_vars, appends, extracts>>

\* The watermark artifact is lost between calls.
RemoveInfoFile ==
  /\ AtRest
  /\ index_info_file.exists
  /\ index_info_file' = NoFile
  /\ pc' = "idle"
  /\ UNCHANGED <<log, index_file, output, console, call_vars, appends, extracts>>

\* The watermark artifact is overwritten with text that int() rejects.
CorruptInfoFile(text) ==
  /\ AtRest
  /\ index_info_file.exists
  /\ index_info_file' = File(text)
  /\ pc' = "idle"
  /\ UNCHANGED <<log, index_file, output, console, call_vars, appends, extracts>>

\* The program as it runs while its index artifacts may be lost or damaged between
\* calls.
NextRecover ==
  \/ \E line \in RecoverLines : AppendLine(line)
  \/ \E t \in Targets : ExtractBegin(t)
  \/ Resolve
  \/ \E k \in 1..num_workers : ProcessChunk(k)
  \/ Merge
  \/ RemoveIndexFile
  \/ RemoveInfoFile
  \/ \E text \in Garbage : CorruptInfoFile(text)

SpecRecover == Init /\ [][NextRecover]_vars

\* ------------------------------------------------- vocabulary of the claims

\* The offsets at which the lines of f start.
LineStarts(f) == {p \in 0..(Len(f) - 1) : p = 0 \/ f[p] = NL}

\* The first 10 bytes of the line at offset p, as written in the file.
RawKey(f, p) == Prefix(readline(f, p), DateLen)

\* The first 10 characters of the decoded line at offset p.
TextKey(f, p) == Prefix(decode(readline(f, p)), DateLen)

\* The line at offset p is long enough, once decoded, to have a date key.
HasKey(f, p) == Len(decode(readline(f, p))) >= DateLen

\* Every line of f has a date as its first 10 bytes, in non-decreasing order.
DateOrdered(f) ==
  /\ \A p \in LineStarts(f) : RawKey(f, p) \in Targets
  /\ \A p, q \in LineStarts(f) : p < q => ~StrLess(RawKey(f, q), RawKey(f, p))

\* The entries and the watermark the artifacts hold.
Entries == load_index(index_file).index
Watermark == read_watermark(index_info_file)

\* A call of update_index has just returned.
UpdateReturned ==
  /\ pc = "returned"
  /\ console \in {"Index updated", "No new date entries", "No new logs to update"}

\* A call of build_index has just returned.
BuildReturned == pc = "returned" /\ console = "Index built"

\* A call of extract_logs has just returned with its output written.
ExtractSaved == pc = "returned" /\ console = "Logs saved"

\* The offsets of the lines of the merged output, in output order.
MergedOffsets == Flatten([k \in 1..num_workers |-> results[k].offsets])

\* The lines of the merged output, in output order.
MergedLines == Flatten([k \in 1..num_workers |-> results[k].lines])

\* How many times x occurs in the sequence s.
Count(s, x) == Cardinality({n \in 1..Len(s) : s[n] = x})

\* The lines of the resolved range that the target date begins.
InRange(p) == range.start_offset <= p /\ p < range.end_offset
Matching == {p \in LineStarts(log) : InRange(p) /\ RawKey(log, p) = target_date}

\* ------------------------------------------------------------------ claims

\* C1 (no omissions): when extract_logs has written its output, every line of the
\* log that starts in [start_offset, end_offset) and whose first 10 bytes are the
\* target date is in the merged output.
C1_NoOmissions ==
  ExtractSaved => \A p \in Matching : Count(MergedOffsets, p) >= 1

\* C2 (no duplicates): when extract_logs has written its output, no line of the
\* range that the target date begins is emitted more than once, by one chunk task
\* or by several.
C2_NoDuplicates ==
  ExtractSaved => \A p \in Matching : Count(MergedOffsets, p) <= 1

\* C3 (order preservation): whatever order the chunk tasks completed in, the output
\* written is the concatenation of the tasks' lines in task order 1..num_workers, and
\* the file offsets of successive output lines never decrease.
C3_OrderPreserved ==
  ExtractSaved =>
    /\ output[target_date] =
         File(Flatten(Flatten([k \in 1..num_workers |-> done[k].lines])))
    /\ MergedOffsets = Flatten([k \in 1..num_workers |-> done[k].offsets])
    /\ \A m, n \in 1..Len(MergedOffsets) : m < n => MergedOffsets[m] <= MergedOffsets[n]

\* C3's case: an output with lines at different offsets that come from different tasks.
C3_Witness ==
  /\ ExtractSaved
  /\ \E j, k \in 1..num_workers :
       /\ j < k
       /\ done[j].offsets # <<>>
       /\ done[k].offsets # <<>>
       /\ done[j].offsets[1] < done[k].offsets[Len(done[k].offsets)]

\* C8 (scenario, extract): on the three-line scenario file, extracting 2024-01-01
\* writes exactly "2024-01-01 a\n", "2024-01-01 b\n", each once, in that order.
C8_ScenarioExtract ==
  (ExtractSaved /\ log = ScenarioLog /\ target_date = D1) =>
    MergedLines = <<LogLine(D1, "a"), LogLine(D1, "b")>>

\* The date keys of the lines that have one never decrease along the file.
KeyOrdered(f) ==
  \A p, q \in LineStarts(f) :
    (p < q /\ HasKey(f, p) /\ HasKey(f, q)) => ~StrLess(TextKey(f, q), TextKey(f, p))

\* C4 (update monotonicity): once the entry list exists, as it does from the first
\* build_index on, and while the date keys of the log stay non-decreasing under
\* appends, both artifacts after a call of update_index are those a full build_index
\* on the log as it is now writes.
C4_UpdateEqualsBuild ==
  (UpdateReturned /\ index_file.exists /\ KeyOrdered(log)) =>
    /\ index_file = build_index(log).index_file
    /\ index_info_file = build_index(log).index_info_file

\* C4's case: an update after appends has added a date to an index that held one.
C4_Witness ==
  /\ pc = "returned"
  /\ console = "Index updated"
  /\ KeyOrdered(log)
  /\ appends >= 1
  /\ Cardinality(DOMAIN Entries) >= 2
  /\ Watermark = Len(log)

\* The least element of a non-empty set of offsets.
Min(S) == CHOOSE x \in S : \A y \in S : x <= y

\* The lines of the entry list written for the key.
EntryLinesOf(key) ==
  {n \in 1..Len(textlines(index_file.data)) :
     startswith(textlines(index_file.data)[n], key \o <<SP>>)}

\* C5 as stated, on the bytes of the file: after build_index, for every date that is
\* the first 10 bytes of a line of at least 10 bytes, the offset stored for it is the
\* least offset of a line whose first 10 bytes are that date.
C5_FirstOffsetOfBytes ==
  BuildReturned =>
    \A p \in LineStarts(log) :
      (Len(readline(log, p)) >= DateLen /\ RawKey(log, p) \in Targets) =>
        /\ RawKey(log, p) \in DOMAIN Entries
        /\ Entries[RawKey(log, p)] =
             Min({q \in LineStarts(log) : RawKey(log, q) = RawKey(log, p)})

\* C5 as amended, on the decoded text: after build_index, for every key that is the
\* first 10 characters of a line of at least 10 characters once its undecodable bytes
\* are dropped, the one entry written for the key holds the least offset of a line
\* with that key; a later line with the same key does not overwrite it.
C5_FirstOffsetOfText ==
  BuildReturned =>
    \A p \in LineStarts(log) :
      HasKey(log, p) =>
        LET key == TextKey(log, p)
            first == Min({q \in LineStarts(log) : HasKey(log, q) /\ TextKey(log, q) = key})
        IN  /\ key \in DOMAIN Entries
            /\ Entries[key] = first
            /\ \E n \in 1..Len(textlines(index_file.data)) :
                 /\ textlines(index_file.data)[n] = key \o <<SP>> \o str(first) \o <<NL>>
                 /\ EntryLinesOf(key) = {n}

\* C5's case: build_index has run on a file where a key comes back on a later line
\* and a line carries an undecodable byte.
C5_Witness ==
  /\ BuildReturned
  /\ \E p, q \in LineStarts(log) :
       p < q /\ HasKey(log, p) /\ HasKey(log, q) /\ TextKey(log, p) = TextKey(log, q)
  /\ \E n \in 1..Len(log) : log[n] = BAD

\* C6 (range correctness): with an index that is up to date with a log whose lines
\* all begin with a date, in non-decreasing order, the range resolved for the target
\* date holds every line that begins with the date and no other line.
C6_RangeCorrect ==
  (pc \in {"pool", "returned"} /\ range.found /\ DateOrdered(log)
     /\ Entries = build_scan(log, 0, EmptyDict)) =>
    \A p \in LineStarts(log) : InRange(p) <=> RawKey(log, p) = target_date

\* C6's case: a range in the middle of the file, between two other dates.
C6_Witness ==
  /\ pc = "pool"
  /\ range.found
  /\ DateOrdered(log)
  /\ Entries = build_scan(log, 0, EmptyDict)
  /\ 0 < range.start_offset
  /\ range.start_offset < range.end_offset
  /\ range.end_offset < Len(log)

\* C7 as stated: build_index on the scenario file yields the entries
\* {2024-01-01: 0, 2024-01-02: 28} and a watermark equal to the file size.
C7_ScenarioBuild28 ==
  (BuildReturned /\ log = ScenarioLog) =>
    /\ Entries = (D1 :> 0 @@ D2 :> 28)
    /\ Watermark = Len(log)

\* C7 as amended: build_index on the scenario file yields exactly the entries
\* {2024-01-01: 0, 2024-01-02: 26}, written as two lines in date order, and a
\* watermark equal to the file size, 39.
C7_ScenarioBuild26 ==
  (BuildReturned /\ log = ScenarioLog) =>
    /\ Entries = (D1 :> 0 @@ D2 :> 26)
    /\ index_file = File(D1 \o <<SP, "0", NL>> \o D2 \o <<SP, "2", "6", NL>>)
    /\ index_info_file = File(<<"3", "9">>)
    /\ Watermark = Len(log)

\* C7's case: build_index has just run on the scenario file.
C7_Witness == BuildReturned /\ log = ScenarioLog

\* The scenario file with "2024-01-02 d\n2024-01-03 e\n" appended.
ScenarioAppended == ScenarioLog \o LogLine(D2, "d") \o LogLine(D3, "e")

\* C9 (update keeps the entries): a call of update_index on an append-only log leaves
\* the text of the entry list in place and appends to it, so every date keeps its
\* offset; the entries it appends are for dates the index did not hold; and the
\* watermark after it is the file size. On the scenario file indexed by build_index
\* and then grown by the lines for 2024-01-02 and 2024-01-03, the one entry appended
\* is 2024-01-03 at offset 52.
C9_UpdateKeepsEntries ==
  [][UpdateIndex =>
       LET old == load_index(index_file).index
           new == load_index(index_file').index
           n == Len(index_file.data)
           appended == SubSeq(index_file'.data, n + 1, Len(index_file'.data))
       IN  /\ Len(index_file'.data) >= n
           /\ SubSeq(index_file'.data, 1, n) = index_file.data
           /\ \A date \in DOMAIN old : date \in DOMAIN new /\ new[date] = old[date]
           /\ DOMAIN load_index(File(appended)).index = DOMAIN new \ DOMAIN old
           /\ read_watermark(index_info_file') = Len(log)
           /\ (/\ log = ScenarioAppended
               /\ index_file = build_index(ScenarioLog).index_file
               /\ index_info_file = build_index(ScenarioLog).index_info_file)
              => /\ appended = D3 \o <<SP, "5", "2", NL>>
                 /\ new = (D1 :> 0 @@ D2 :> 26 @@ D3 :> 52)
                 /\ index_info_file'.data = <<"6", "5">>
    ]_vars

\* C9's case: the scenario file, grown by the two lines, after the update.
C9_Witness ==
  /\ pc = "returned"
  /\ console = "Index updated"
  /\ log = ScenarioAppended
  /\ Entries = (D1 :> 0 @@ D2 :> 26 @@ D3 :> 52)
  /\ Watermark = Len(log)

\* C10 (no-op update): a call of update_index while the file size is at most the
\* stored watermark, the file unchanged or cut back, changes neither artifact and
\* reports no new entries.
C10_NoOpUpdate ==
  [][(UpdateIndex /\ getsize(log) <= Watermark) =>
       /\ index_file' = index_file
       /\ index_info_file' = index_info_file
       /\ console' # "Index updated"
       /\ ~load_index(index_file).raised => console' = "No new logs to update"
    ]_vars

\* C10's case: update_index has returned on a file cut back below the watermark.
C10_Witness ==
  /\ pc = "returned"
  /\ console = "No new logs to update"
  /\ index_file.exists
  /\ 0 < getsize(log)
  /\ getsize(log) < Watermark

\* C11 (date not found): when the date asked for has no entry in the loaded index,
\* extract_logs reports it, hands no task to the pool, leaves every output artifact as
\* it was and returns.
C11_NotFound ==
  [][(Resolve /\ ~load_index(index_file).raised /\ target_date \notin DOMAIN Entries) =>
       /\ pc' = "returned"
       /\ console' = "Target date not found in the index"
       /\ tasks' = <<>>
       /\ done' = <<>>
       /\ output' = output
       /\ index_file' = index_file
       /\ index_info_file' = index_info_file
    ]_vars

\* C11's case: a call has returned "not found" on a non-empty index, after an earlier
\* call wrote the output of another date.
C11_Witness ==
  /\ pc = "returned"
  /\ console = "Target date not found in the index"
  /\ DOMAIN Entries # {}
  /\ target_date \notin DOMAIN Entries
  /\ tasks = <<>>
  /\ ~output[target_date].exists
  /\ \E d \in Targets : output[d].exists

\* C12 (idempotent build): a call of build_index made right after a call of build_index
\* returned, the log file not modified in between, leaves the text of the entry list
\* (dates, offsets and their order) and the watermark as the first call wrote them.
C12_BuildIdempotent ==
  [][(BuildIndex /\ BuildReturned) =>
       /\ index_file' = index_file
       /\ index_info_file' = index_info_file
       /\ load_index(index_file').index = Entries
       /\ read_watermark(index_info_file') = Watermark
       /\ console' = "Index built"
    ]_vars

\* C12's case: build_index has returned on a file of three dates, where a second call
\* can follow at once.
C12_Witness ==
  /\ BuildReturned
  /\ DOMAIN Entries = {D1, D2, D3}
  /\ Len(textlines(index_file.data)) = 3
  /\ Watermark = Len(log)
  /\ ENABLED BuildIndex

\* C13 (watermark): on a log that only grows, every call of build_index or update_index
\* leaves the persisted watermark equal to the size of the log file, and no other step
\* changes it; so the watermark is always the size the file had when the last such call
\* returned (0 before the first), and never more than the file's size.
C13_WatermarkIsSize ==
  [][/\ (BuildIndex \/ UpdateIndex) => read_watermark(index_info_file') = getsize(log')
     /\ ~(BuildIndex \/ UpdateIndex) =>
          /\ index_info_file' = index_info_file
          /\ Watermark <= getsize(log)
          /\ getsize(log) <= getsize(log')
    ]_vars

\* C13's case: update_index has scanned appended lines that brought no new date and has
\* moved the watermark to the new size.
C13_Witness ==
  /\ pc = "returned"
  /\ console = "No new date entries"
  /\ index_info_file = File(str(getsize(log)))
  /\ getsize(log) > Len(ScenarioLog)

\* C14 (phase ordering): within a call of extract_logs the tasks are handed to the pool
\* only after the index phase has ended, by a step that writes neither index artifact;
\* no step taken while the pool runs writes an index artifact; the index artifacts are
\* written only by the step that opens a call, before anything is dispatched.
C14_IndexBeforeChunks ==
  [][/\ (pc # "pool" /\ pc' = "pool") =>
          /\ pc = "indexed"
          /\ index_file' = index_file
          /\ index_info_file' = index_info_file
     /\ pc = "pool" => (index_file' = index_file /\ index_info_file' = index_info_file)
     /\ (index_file' # index_file \/ index_info_file' # index_info_file) =>
          /\ AtRest
          /\ pc' \in {"indexed", "returned"}
          /\ tasks' = <<>>
    ]_vars

\* C14's case: a call that updated the index of a grown file has some chunk tasks
\* finished and some still to run.
C14_Witness ==
  /\ pc = "pool"
  /\ extracts = 2
  /\ appends > 0
  /\ Watermark = getsize(log)
  /\ \E k \in 1..num_workers : done[k].finished
  /\ \E k \in 1..num_workers : ~done[k].finished

\* C15 (first chunk keeps its first line): the task of chunk 0 starts reading at the
\* start of the resolved range, whatever that offset is, without discarding a line; so
\* when the line at the start of the range is a line of the target date, it is the
\* first line chunk 0 emits.
C15_FirstChunkNoDiscard ==
  (pc = "pool" /\ done[1].finished) =>
    /\ tasks[1].chunk_start = range.start_offset
    /\ chunk_first_pos(log, tasks[1].chunk_start) = range.start_offset
    /\ TextKey(log, range.start_offset) = target_date =>
         /\ done[1].offsets # <<>>
         /\ done[1].offsets[1] = range.start_offset

\* C16 (partitioning): for a resolved range whose end is above its start, the tasks
\* handed to the pool are exactly num_workers chunks; chunk 0 starts at the range's
\* start, each chunk starts where the one before ends, the last ends at the range's
\* end, no chunk ends before it starts, and every chunk but the last is
\* (end - start) div num_workers bytes long.
C16_Partition ==
  (pc = "pool" /\ range.end_offset > range.start_offset) =>
    LET total == range.end_offset - range.start_offset
    IN  /\ Len(tasks) = num_workers
        /\ tasks[1].chunk_start = range.start_offset
        /\ tasks[num_workers].chunk_end = range.end_offset
        /\ \A k \in 1..(num_workers - 1) :
             /\ tasks[k].chunk_end = tasks[k + 1].chunk_start
             /\ tasks[k].chunk_end - tasks[k].chunk_start = total \div num_workers
        /\ \A k \in 1..num_workers :
             /\ tasks[k].chunk_start <= tasks[k].chunk_end
             /\ tasks[k].target_date = target_date

\* C16's case: the tasks of a range that starts past byte 0 and whose length is not a
\* multiple of num_workers, so that the last chunk is longer than the others.
C16_Witness ==
  /\ pc = "pool"
  /\ range.start_offset > 0
  /\ range.end_offset > range.start_offset
  /\ (range.end_offset - range.start_offset) % num_workers # 0
  /\ tasks[num_workers].chunk_end - tasks[num_workers].chunk_start
       > tasks[1].chunk_end - tasks[1].chunk_start

\* C17 (empty range): whenever the range resolved for the target date has its end at or
\* below its start, no task is handed to the pool, the call reports that the range
\* holds no data and nothing is written for the date by that call.
C17_EmptyRangeNoTasks ==
  (range.found /\ range.end_offset - range.start_offset <= 0) =>
    /\ tasks = <<>>
    /\ done = <<>>
    /\ pc # "pool"
    /\ pc = "returned" => console = "No data in the specified range"

\* C18 (line alignment): on a log that grows by whole lines, every offset stored in the
\* entry list by build_index or update_index, the updates that resume at the watermark
\* included, is the offset of the start of a line of the log file: 0 or the offset just
\* after a newline byte.
C18_OffsetsAreLineStarts ==
  \A date \in DOMAIN Entries :
    /\ Entries[date] \in LineStarts(log)
    /\ Entries[date] = 0 \/ log[Entries[date]] = NL

\* C18's case: update_index has appended an entry for a line that starts past byte 0,
\* behind a line that holds an undecodable byte.
C18_Witness ==
  /\ pc = "returned"
  /\ console = "Index updated"
  /\ \E date \in DOMAIN Entries :
       /\ Entries[date] > 0
       /\ \E p \in 1..Entries[date] : log[p] = BAD

\* The date fields of the lines of the entry list, in the order of the artifact.
EntryKeys ==
  [n \in 1..Len(textlines(index_file.data)) |-> Head(split(textlines(index_file.data)[n]))]

\* C19 as stated: after any sequence of calls of build_index and update_index the
\* lines of the entry list are in ascending date order, one line per date.
C19_EntryListAscending ==
  \A i, j \in 1..Len(EntryKeys) : i < j => StrLess(EntryKeys[i], EntryKeys[j])

\* C19 (entry-list shape): after any sequence of calls of build_index and update_index
\* on a log that grows by whole lines the entry list holds at most one line per date;
\* its lines are in ascending date order, the lines update_index appended included, as
\* long as the date keys of the log never decrease along the file.
C19_EntryListShape ==
  /\ \A i, j \in 1..Len(EntryKeys) : i # j => EntryKeys[i] # EntryKeys[j]
  /\ KeyOrdered(log) =>
       \A i, j \in 1..Len(EntryKeys) : i < j => StrLess(EntryKeys[i], EntryKeys[j])

\* C19's case: update_index has appended entries behind those of an earlier call, on a
\* log whose date keys never decrease.
C19_Witness ==
  /\ pc = "returned"
  /\ console = "Index updated"
  /\ KeyOrdered(log)
  /\ Len(EntryKeys) = 3
  /\ log # ScenarioAppended

\* The first offset of every date key of the file: what a scan from byte 0 finds.
FirstOffsets(f) ==
  [key \in {TextKey(f, p) : p \in {q \in LineStarts(f) : HasKey(f, q)}} |->
     Min({p \in LineStarts(f) : HasKey(f, p) /\ TextKey(f, p) = key})]

\* The watermark artifact is absent or holds no numeral.
WatermarkLost == ~index_info_file.exists \/ ~IsNumeral(strip(index_info_file.data))

\* C20 (recovery from missing artifacts): a call of extract_logs that finds no entry
\* list builds the whole index, every date at its first offset and the watermark at the
\* file size, before it resolves any range; a call that finds the entry list but no
\* readable watermark scans the file from byte 0, keeps every entry it loaded, adds the
\* dates the loaded index lacked at their first offsets, and leaves the watermark at
\* the file size.
C20_Recovery ==
  [][(\E t \in Targets : ExtractBegin(t)) =>
       LET old == load_index(index_file).index
           new == load_index(index_file').index
           full == FirstOffsets(log)
       IN  /\ ~index_file.exists =>
                /\ index_file'.exists
                /\ new = full
                /\ read_watermark(index_info_file') = getsize(log)
                /\ pc' = "indexed"
                /\ range' = NoRange
                /\ tasks' = <<>>
           /\ (index_file.exists /\ WatermarkLost) =>
                /\ SubSeq(index_file'.data, 1, Len(index_file.data)) = index_file.data
                /\ DOMAIN new = DOMAIN old \cup DOMAIN full
                /\ \A date \in DOMAIN old : new[date] = old[date]
                /\ \A date \in DOMAIN full \ DOMAIN old : new[date] = full[date]
                /\ read_watermark(index_info_file') = getsize(log)
                /\ pc' = "indexed"
    ]_vars

\* C20's case: a second call of extract_logs on the scenario file, to which nothing
\* was appended, has scanned it again: the watermark the first call wrote was lost, the
\* scan from byte 0 added no entry and the watermark is back at the file size.
C20_Witness ==
  /\ pc = "indexed"
  /\ console = "No new date entries"
  /\ appends = 0
  /\ extracts = 2
  /\ log = ScenarioLog
  /\ Entries = (D1 :> 0 @@ D2 :> 26)
  /\ index_info_file = File(<<"3", "9">>)

====
